---- MODULE Spec2Model ----
(***************************************************************************)
(* The ERC-20 ledger of contracts/src/erc20/mod.rs as a state machine.     *)
(* The state is the contract storage (_balances, _allowances,              *)
(* _total_supply) plus two observation variables: lastOp, the call that    *)
(* has just returned with its arguments and its Result, and logs, the      *)
(* events that call passed to evm::log.  Every action but Return is one    *)
(* whole call of a function of IERC20 or IERC20Virtual on that storage,    *)
(* taken while the contract is idle; Return hands the Result to the caller *)
(* and leaves the contract idle for the next call.  Storage writes are     *)
(* kept as the library makes them: a call that returns Err keeps the       *)
(* writes it made before the failing step.                                 *)
(*                                                                         *)
(* The second part is the VestingWallet of                                 *)
(* contracts/src/finance/vesting_wallet/mod.rs, deployed as the            *)
(* VestingWalletExample of examples/vesting-wallet/src/lib.rs: its storage *)
(* (vesting_wallet), the chain around it (block timestamp, the ether and   *)
(* the token balances of the wallet) and the totals received and paid      *)
(* (history).  It runs under its own specification, WSpec; the token       *)
(* contracts it calls are ERC-20 ledgers of the first part.  A call of the *)
(* deployed wallet that returns Err reverts as a whole.  ScheduleSpec      *)
(* applies vesting_schedule alone to every allocation and timestamp.       *)
(***************************************************************************)
EXTENDS Integers, Sequences, FiniteSets, TLC

\* ------------------------------------------------------------------ bounds
\* U256::MAX, scaled down: a uint is a number in 0..MAX.
MAX == 3

\* ---------------------------------------------------------------- addresses
ZERO == "0x0000"
alice == "0xA11CE"
bob == "0xB0B0"

Address == {ZERO, alice, bob}

\* msg::sender(): an externally owned account, never Address::ZERO.
Sender == Address \ {ZERO}

U256 == 0 .. MAX

\* U256 `+` and `-` (ruint): wrapping, no panic.
wrapping_add(a, b) == (a + b) % (MAX + 1)

wrapping_sub(a, b) == (a - b + MAX + 1) % (MAX + 1)

\* U256::checked_add: an Option, None on overflow.
None == [is_some |-> FALSE]

Some(v) == [is_some |-> TRUE, v |-> v]

checked_add(a, b) == IF a + b > MAX THEN None ELSE Some(a + b)

VARIABLES _balances, _allowances, _total_supply, lastOp, logs

\* The vesting wallet (finance/vesting_wallet) and what it sees of the chain:
\* vesting_wallet is the storage of the VestingWallet struct, chain is the
\* block timestamp, the wallet's ether and the wallet's balance at each token
\* contract, history sums the ether received and paid out so far.  The ledger
\* specification leaves the three of them alone.
VARIABLES vesting_wallet, chain, history

storage == <<_balances, _allowances, _total_supply>>

wallet_vars == <<vesting_wallet, chain, history>>

vars == <<_balances, _allowances, _total_supply, lastOp, logs,
          vesting_wallet, chain, history>>

\* The storage as one value S = [b, a, t], threaded through the functions.
ERC20 == [b |-> _balances, a |-> _allowances, t |-> _total_supply]

\* ------------------------------------------------------------------ storage
_get_total_supply(S) == S.t

_set_total_supply(S, total_supply) == [S EXCEPT !.t = total_supply]

_get_balance(S, account) == S.b[account]

_set_balance(S, account, balance) == [S EXCEPT !.b[account] = balance]

_get_allowance(S, owner, spender) == S.a[owner][spender]

\* Mutant of _set_allowance: the two keys of the entry are swapped.
_set_allowance_swapped(S, owner, spender, allowance) ==
    [S EXCEPT !.a[spender][owner] = allowance]

_set_allowance(S, owner, spender, allowance) ==
    [S EXCEPT !.a[owner][spender] = allowance]

\* ------------------------------------------------------------------- events
Transfer(from, to, value) ==
    [event |-> "Transfer", from |-> from, to |-> to, value |-> value]

Approval(owner, spender, value) ==
    [event |-> "Approval", owner |-> owner, spender |-> spender, value |-> value]

\* ------------------------------------------------------------------- errors
ERC20InsufficientBalance(sender, balance, needed) ==
    [kind |-> "InsufficientBalance", sender |-> sender, balance |-> balance,
     needed |-> needed]

ERC20InvalidSender(sender) == [kind |-> "InvalidSender", sender |-> sender]

ERC20InvalidReceiver(receiver) ==
    [kind |-> "InvalidReceiver", receiver |-> receiver]

ERC20InsufficientAllowance(spender, allowance, needed) ==
    [kind |-> "InsufficientAllowance", spender |-> spender,
     allowance |-> allowance, needed |-> needed]

ERC20InvalidSpender(spender) == [kind |-> "InvalidSpender", spender |-> spender]

\* Result values: Ok(()), Ok(true), and the panic of `expect`.
OkUnit == [kind |-> "Ok"]

OkTrue == [kind |-> "Ok", ret |-> TRUE]

Panic == [kind |-> "Panic"]

IsOk(res) == res.kind = "Ok"

IsErr(res) == res.kind \notin {"Ok", "Panic"}

\* What a function hands back: the storage it leaves, its Result, its events.
Outcome(S, res, ev) == [st |-> S, res |-> res, ev |-> ev]

\* ------------------------------------------------------------ IERC20Virtual
\* Mutant of _update_from: a mint that does not raise the supply.
_update_from_mint_keeps_supply(S, from, value) ==
    IF from = ZERO
    THEN LET total_supply == checked_add(_get_total_supply(S), value)
         IN  IF ~total_supply.is_some
             THEN Outcome(S, Panic, <<>>)
             ELSE Outcome(S, OkUnit, <<>>)
    ELSE LET from_balance == _get_balance(S, from)
         IN  IF from_balance < value
             THEN Outcome(S, ERC20InsufficientBalance(from, from_balance, value),
                          <<>>)
             ELSE Outcome(_set_balance(S, from, wrapping_sub(from_balance, value)),
                          OkUnit, <<>>)

\* Mutant of _update_from: a mint that adds with a wrapping `+`, unchecked.
_update_from_unchecked_mint(S, from, value) ==
    IF from = ZERO
    THEN Outcome(_set_total_supply(S,
                     wrapping_add(_get_total_supply(S), value)), OkUnit, <<>>)
    ELSE LET from_balance == _get_balance(S, from)
         IN  IF from_balance < value
             THEN Outcome(S, ERC20InsufficientBalance(from, from_balance, value),
                          <<>>)
             ELSE Outcome(_set_balance(S, from, wrapping_sub(from_balance, value)),
                          OkUnit, <<>>)

\* Mutant of _update_from: the error swaps `balance` and `needed`.
_update_from_swapped_error(S, from, value) ==
    IF from = ZERO
    THEN LET total_supply == checked_add(_get_total_supply(S), value)
         IN  IF ~total_supply.is_some
             THEN Outcome(S, Panic, <<>>)
             ELSE Outcome(_set_total_supply(S, total_supply.v), OkUnit, <<>>)
    ELSE LET from_balance == _get_balance(S, from)
         IN  IF from_balance < value
             THEN Outcome(S, ERC20InsufficientBalance(from, value, from_balance),
                          <<>>)
             ELSE Outcome(_set_balance(S, from, wrapping_sub(from_balance, value)),
                          OkUnit, <<>>)

\* Mutant of _update_from: the balance is written before it is checked.
_update_from_writes_first(S, from, value) ==
    IF from = ZERO
    THEN LET total_supply == checked_add(_get_total_supply(S), value)
         IN  IF ~total_supply.is_some
             THEN Outcome(S, Panic, <<>>)
             ELSE Outcome(_set_total_supply(S, total_supply.v), OkUnit, <<>>)
    ELSE LET from_balance == _get_balance(S, from)
             written == _set_balance(S, from, wrapping_sub(from_balance, value))
         IN  IF from_balance < value
             THEN Outcome(written,
                          ERC20InsufficientBalance(from, from_balance, value),
                          <<>>)
             ELSE Outcome(written, OkUnit, <<>>)

\* The source side of _update: a mint raises the supply (panics past MAX),
\* anything else takes `value` out of `from` or returns InsufficientBalance.
_update_from(S, from, value) ==
    IF from = ZERO
    THEN LET total_supply == checked_add(_get_total_supply(S), value)
         IN  IF ~total_supply.is_some
             THEN Outcome(S, Panic, <<>>)
             ELSE Outcome(_set_total_supply(S, total_supply.v), OkUnit, <<>>)
    ELSE LET from_balance == _get_balance(S, from)
         IN  IF from_balance < value
             THEN Outcome(S, ERC20InsufficientBalance(from, from_balance, value),
                          <<>>)
             ELSE Outcome(_set_balance(S, from, wrapping_sub(from_balance, value)),
                          OkUnit, <<>>)

\* Mutant of _update_to: the null address is credited like any account.
_update_to_credits_null(S, to, value) ==
    _set_balance(S, to, wrapping_add(_get_balance(S, to), value))

\* Mutant of _update_to: a burn that forgets to lower the supply.
_update_to_keeps_supply(S, to, value) ==
    IF to = ZERO
    THEN S
    ELSE _set_balance(S, to, wrapping_add(_get_balance(S, to), value))

\* The destination side of _update: a burn lowers the supply, anything else
\* credits `to`.
_update_to(S, to, value) ==
    IF to = ZERO
    THEN _set_total_supply(S, wrapping_sub(_get_total_supply(S), value))
    ELSE _set_balance(S, to, wrapping_add(_get_balance(S, to), value))

\* Mutant of _update: the balance of `to` is read before `from` is debited.
_update_stale_credit(S, from, to, value) ==
    LET src == _update_from(S, from, value)
    IN  IF ~IsOk(src.res)
        THEN src
        ELSE Outcome(IF to = ZERO
                     THEN _update_to(src.st, to, value)
                     ELSE _set_balance(src.st, to,
                              wrapping_add(_get_balance(S, to), value)),
                     OkUnit, <<Transfer(from, to, value)>>)

\* Mutant of _update: no Transfer event for a value of 0.
_update_silent_zero(S, from, to, value) ==
    LET src == _update_from(S, from, value)
    IN  IF ~IsOk(src.res)
        THEN src
        ELSE Outcome(_update_to(src.st, to, value), OkUnit,
                     IF value = 0 THEN <<>> ELSE <<Transfer(from, to, value)>>)

_update(S, from, to, value) ==
    LET src == _update_from(S, from, value)
    IN  IF ~IsOk(src.res)
        THEN src
        ELSE Outcome(_update_to(src.st, to, value), OkUnit,
                     <<Transfer(from, to, value)>>)

\* Mutant of _transfer: neither end is checked.
_transfer_unchecked(S, from, to, value) == _update(S, from, to, value)

_transfer(S, from, to, value) ==
    IF from = ZERO
    THEN Outcome(S, ERC20InvalidSender(ZERO), <<>>)
    ELSE IF to = ZERO
    THEN Outcome(S, ERC20InvalidReceiver(ZERO), <<>>)
    ELSE _update(S, from, to, value)

\* Mutant of _burn: no check of the account.
_burn_no_check(S, account, value) == _update(S, account, ZERO, value)

_burn(S, account, value) ==
    IF account = ZERO
    THEN Outcome(S, ERC20InvalidSender(ZERO), <<>>)
    ELSE _update(S, account, ZERO, value)

\* Mutant of _spend_allowance: no exemption for the U256::MAX allowance.
_spend_allowance_no_sentinel(S, owner, spender, value) ==
    LET current_allowance == _get_allowance(S, owner, spender)
    IN  IF current_allowance < value
        THEN Outcome(S, ERC20InsufficientAllowance(spender,
                             current_allowance, value), <<>>)
        ELSE Outcome(_set_allowance(S, owner, spender,
                             wrapping_sub(current_allowance, value)),
                     OkUnit, <<>>)

_spend_allowance(S, owner, spender, value) ==
    LET current_allowance == _get_allowance(S, owner, spender)
    IN  IF current_allowance # MAX
        THEN IF current_allowance < value
             THEN Outcome(S, ERC20InsufficientAllowance(spender,
                                  current_allowance, value), <<>>)
             ELSE Outcome(_set_allowance(S, owner, spender,
                                  wrapping_sub(current_allowance, value)),
                          OkUnit, <<>>)
        ELSE Outcome(S, OkUnit, <<>>)

\* ------------------------------------------------------------------- IERC20
\* Mutant of OkTrueOr: the Err of the inner call is wrapped in a new error.
OkTrueOr_wraps(out) ==
    IF IsOk(out.res) THEN [out EXCEPT !.res = OkTrue]
    ELSE IF out.res.kind = "Panic" THEN out
    ELSE [out EXCEPT !.res = [kind |-> "Wrapped", inner |-> out.res]]

\* `?` then Ok(true): an Err (or the panic) of the inner call is passed on.
OkTrueOr(out) == IF IsOk(out.res) THEN [out EXCEPT !.res = OkTrue] ELSE out

\* Mutant of transfer: source and destination swapped.
transfer_swapped(S, sender, to, value) ==
    OkTrueOr(_transfer(S, to, sender, value))

transfer(S, sender, to, value) == OkTrueOr(_transfer(S, sender, to, value))

\* Mutant of approve: the value is added to the entry instead of replacing it.
approve_accumulates(S, sender, spender, value) ==
    LET owner == sender
    IN  IF spender = ZERO
        THEN Outcome(S, ERC20InvalidSpender(ZERO), <<>>)
        ELSE Outcome(_set_allowance(S, owner, spender,
                         wrapping_add(_get_allowance(S, owner, spender), value)),
                     OkTrue, <<Approval(owner, spender, value)>>)

\* Mutant of approve: no check of the spender.
approve_no_check(S, sender, spender, value) ==
    LET owner == sender
    IN  Outcome(_set_allowance(S, owner, spender, value), OkTrue,
                <<Approval(owner, spender, value)>>)

\* Mutant of approve: the event carries the change of the allowance.
approve_logs_delta(S, sender, spender, value) ==
    LET owner == sender
    IN  IF spender = ZERO
        THEN Outcome(S, ERC20InvalidSpender(ZERO), <<>>)
        ELSE Outcome(_set_allowance(S, owner, spender, value), OkTrue,
                     <<Approval(owner, spender, wrapping_sub(value,
                                    _get_allowance(S, owner, spender)))>>)

approve(S, sender, spender, value) ==
    LET owner == sender
    IN  IF spender = ZERO
        THEN Outcome(S, ERC20InvalidSpender(ZERO), <<>>)
        ELSE Outcome(_set_allowance(S, owner, spender, value), OkTrue,
                     <<Approval(owner, spender, value)>>)

\* Mutant of transfer_from: the transfer is made before the allowance is
\* spent.
transfer_from_transfers_first(S, sender, from, to, value) ==
    LET spender == sender
        moved == _transfer(S, from, to, value)
    IN  IF ~IsOk(moved.res)
        THEN moved
        ELSE LET spent == _spend_allowance(moved.st, from, spender, value)
             IN  IF ~IsOk(spent.res)
                 THEN spent
                 ELSE Outcome(spent.st, OkTrue, moved.ev)

\* Mutant of transfer_from: all or nothing, an Err restores the storage the
\* call started from.
transfer_from_rolls_back(S, sender, from, to, value) ==
    LET spender == sender
        spent == _spend_allowance(S, from, spender, value)
        moved == _transfer(spent.st, from, to, value)
    IN  IF ~IsOk(spent.res)
        THEN spent
        ELSE IF ~IsOk(moved.res)
        THEN Outcome(S, moved.res, <<>>)
        ELSE OkTrueOr(moved)

\* Mutant of transfer_from: the allowance is never spent.
transfer_from_no_spend(S, sender, from, to, value) ==
    OkTrueOr(_transfer(S, from, to, value))

transfer_from(S, sender, from, to, value) ==
    LET spender == sender
        spent == _spend_allowance(S, from, spender, value)
    IN  IF ~IsOk(spent.res)
        THEN spent
        ELSE OkTrueOr(_transfer(spent.st, from, to, value))

\* The value a getter returns (a plain U256, no Result to unwrap).
OkValue(v) == [kind |-> "Ok", ret |-> v]

\* Mutant of total_supply: the supply is recomputed as one account's balance.
total_supply_of_alice(S) == Outcome(S, OkValue(_get_balance(S, alice)), <<>>)

total_supply(S) == Outcome(S, OkValue(_get_total_supply(S)), <<>>)

balance_of(S, account) == Outcome(S, OkValue(_get_balance(S, account)), <<>>)

allowance(S, owner, spender) ==
    Outcome(S, OkValue(_get_allowance(S, owner, spender)), <<>>)

\* ------------------------------------------------------------------ actions
\* lastOp while no call has returned: the contract is idle.
Idle == [name |-> "idle", sender |-> ZERO, x |-> ZERO, y |-> ZERO, value |-> 0,
         res |-> OkUnit]

\* One call (taken only while idle): the storage becomes what the call left,
\* lastOp and logs record it.  lastOp fields: x is from / owner / account, y is to / spender.
Call(name, sender, x, y, value, out) ==
    /\ _balances' = out.st.b
    /\ _allowances' = out.st.a
    /\ _total_supply' = out.st.t
    /\ lastOp' = [name |-> name, sender |-> sender, x |-> x, y |-> y,
                  value |-> value, res |-> out.res]
    /\ logs' = out.ev
    /\ UNCHANGED wallet_vars

\* The empty ledger of Default (no balance, no allowance, supply 0).
EmptyLedger ==
    /\ _balances = [a \in Address |-> 0]
    /\ _allowances = [o \in Address |-> [s \in Address |-> 0]]
    /\ _total_supply = 0

\* No vesting wallet is deployed next to the ledger.
NoWallet ==
    /\ vesting_wallet = [deployed |-> FALSE]
    /\ chain = [deployed |-> FALSE]
    /\ history = [deployed |-> FALSE]

Init ==
    /\ EmptyLedger
    /\ NoWallet
    /\ lastOp = Idle
    /\ logs = <<>>

Update ==
    /\ lastOp = Idle
    /\ \E from \in Address, to \in Address, value \in U256 :
           Call("_update", ZERO, from, to, value, _update(ERC20, from, to, value))

Burn ==
    /\ lastOp = Idle
    /\ \E account \in Address, value \in U256 :
           Call("_burn", ZERO, account, ZERO, value, _burn(ERC20, account, value))

SpendAllowance ==
    /\ lastOp = Idle
    /\ \E owner \in Address, spender \in Address, value \in U256 :
           Call("_spend_allowance", ZERO, owner, spender, value,
                _spend_allowance(ERC20, owner, spender, value))

DoTransfer ==
    /\ lastOp = Idle
    /\ \E sender \in Sender, to \in Address, value \in U256 :
           Call("transfer", sender, sender, to, value,
                transfer(ERC20, sender, to, value))

DoApprove ==
    /\ lastOp = Idle
    /\ \E sender \in Sender, spender \in Address, value \in U256 :
           Call("approve", sender, sender, spender, value,
                approve(ERC20, sender, spender, value))

DoTransferFrom ==
    /\ lastOp = Idle
    /\ \E sender \in Sender, from \in Address, to \in Address, value \in U256 :
           Call("transfer_from", sender, from, to, value,
                transfer_from(ERC20, sender, from, to, value))

TotalSupply ==
    /\ lastOp = Idle
    /\ Call("total_supply", ZERO, ZERO, ZERO, 0, total_supply(ERC20))

BalanceOf ==
    /\ lastOp = Idle
    /\ \E account \in Address :
           Call("balance_of", ZERO, account, ZERO, 0, balance_of(ERC20, account))

Allowance ==
    /\ lastOp = Idle
    /\ \E owner \in Address, spender \in Address :
           Call("allowance", ZERO, owner, spender, 0,
                allowance(ERC20, owner, spender))

\* The Result reaches the caller; the storage stays as the call left it.
Return ==
    /\ lastOp # Idle
    /\ lastOp' = Idle
    /\ logs' = <<>>
    /\ UNCHANGED storage
    /\ UNCHANGED wallet_vars

Next ==
    \/ Update
    \/ Burn
    \/ SpendAllowance
    \/ DoTransfer
    \/ DoApprove
    \/ DoTransferFrom
    \/ TotalSupply
    \/ BalanceOf
    \/ Allowance
    \/ Return

Spec == Init /\ [][Next]_vars

\* =================================================================== claims
RECURSIVE Sum(_, _)
Sum(f, A) == IF A = {} THEN 0
             ELSE LET a == CHOOSE a \in A : TRUE IN f[a] + Sum(f, A \ {a})

\* The call that has just returned, read off lastOp.
Returned(name) == lastOp.name = name

Returning(name) == lastOp'.name = name

\* C1: conservation.  In every state reachable from the empty ledger through
\* _update, _burn, transfer, transfer_from, approve (and _spend_allowance), the
\* total supply equals the sum of the balances of all accounts.
C1_Conservation == _total_supply = Sum(_balances, Address)

\* C1 witness: a burn of a positive value has returned Ok on a ledger where
\* both accounts still hold tokens (so mints came before it).
C1_Witness ==
    /\ Returned("_burn") /\ IsOk(lastOp.res) /\ lastOp.value > 0
    /\ _balances[alice] > 0 /\ _balances[bob] > 0

\* C2 as claimed: whenever a ledger operation returns an error, every
\* balance, every allowance entry and the total supply are as before the call.
C2_Original ==
    [][IsErr(lastOp'.res) =>
          /\ _balances' = _balances
          /\ _allowances' = _allowances
          /\ _total_supply' = _total_supply]_vars

\* C2 as amended: whenever a ledger operation returns an error, every balance
\* and the total supply are as before the call, and so is every allowance
\* entry, except that a transfer_from rejected by its internal transfer (after
\* its spend of a finite allowance succeeded) leaves allowance(from, caller)
\* lower by value.
C2_AtomicityOnRejection ==
    [][IsErr(lastOp'.res) =>
          /\ _balances' = _balances
          /\ _total_supply' = _total_supply
          /\ \A o \in Address, s \in Address :
                LET spent == /\ Returning("transfer_from")
                             /\ o = lastOp'.x /\ s = lastOp'.sender
                             /\ lastOp'.res.kind # "InsufficientAllowance"
                             /\ _allowances[o][s] # MAX
                IN  _allowances'[o][s] =
                        IF spent THEN _allowances[o][s] - lastOp'.value
                        ELSE _allowances[o][s]]_vars

\* C2 witness: a transfer_from of a positive value was rejected by its
\* internal transfer (zero receiver) after spending a finite allowance.
C2_Witness ==
    /\ Returned("transfer_from") /\ lastOp.res.kind = "InvalidReceiver"
    /\ lastOp.value > 0 /\ lastOp.x # ZERO
    /\ _allowances[lastOp.x][lastOp.sender] # MAX

\* C3: a successful transfer(to, value) by caller c with to non-null and
\* to # c lowers balance_of(c) by exactly value, raises balance_of(to) by
\* exactly value, leaves the total supply and every other balance unchanged,
\* and returns true.
C3_Transfer ==
    [][(/\ Returning("transfer") /\ IsOk(lastOp'.res)
        /\ lastOp'.y # ZERO /\ lastOp'.y # lastOp'.sender) =>
          LET c == lastOp'.sender
              to == lastOp'.y
          IN  /\ _balances'[c] = _balances[c] - lastOp'.value
              /\ _balances'[to] = _balances[to] + lastOp'.value
              /\ \A a \in Address \ {c, to} : _balances'[a] = _balances[a]
              /\ _total_supply' = _total_supply
              /\ lastOp'.res = OkTrue]_vars

\* C3 witness: a transfer of a positive value to another account returned Ok.
C3_Witness ==
    /\ Returned("transfer") /\ IsOk(lastOp.res) /\ lastOp.value > 0
    /\ lastOp.y # lastOp.sender /\ _balances[lastOp.y] >= lastOp.value

\* C4 as claimed: a successful transfer_from(from, to, value) by spender s
\* whose allowance(from, s) is not MAX lowers allowance(from, s) by exactly
\* value, lowers balance_of(from) by value, raises balance_of(to) by value and
\* leaves the total supply unchanged.
C4_Original ==
    [][(/\ Returning("transfer_from") /\ IsOk(lastOp'.res)
        /\ _allowances[lastOp'.x][lastOp'.sender] # MAX) =>
          LET s == lastOp'.sender
              from == lastOp'.x
              to == lastOp'.y
          IN  /\ _allowances'[from][s] = _allowances[from][s] - lastOp'.value
              /\ _balances'[from] = _balances[from] - lastOp'.value
              /\ _balances'[to] = _balances[to] + lastOp'.value
              /\ _total_supply' = _total_supply]_vars

\* C4 as amended: a successful transfer_from(from, to, value) by spender s
\* whose allowance(from, s) is not MAX lowers allowance(from, s) by exactly
\* value and leaves the total supply unchanged; when to # from it lowers
\* balance_of(from) by value and raises balance_of(to) by value, and when
\* to = from it leaves balance_of(from) unchanged.
C4_TransferFrom ==
    [][(/\ Returning("transfer_from") /\ IsOk(lastOp'.res)
        /\ _allowances[lastOp'.x][lastOp'.sender] # MAX) =>
          LET s == lastOp'.sender
              from == lastOp'.x
              to == lastOp'.y
          IN  /\ _allowances'[from][s] = _allowances[from][s] - lastOp'.value
              /\ _total_supply' = _total_supply
              /\ to # from =>
                    /\ _balances'[from] = _balances[from] - lastOp'.value
                    /\ _balances'[to] = _balances[to] + lastOp'.value
              /\ to = from => _balances'[from] = _balances[from]]_vars

\* C4 witness: a transfer_from of a positive value between two different
\* accounts returned Ok on a finite allowance.
C4_Witness ==
    /\ Returned("transfer_from") /\ IsOk(lastOp.res) /\ lastOp.value > 0
    /\ lastOp.x # lastOp.y
    /\ _allowances[lastOp.x][lastOp.sender] # MAX

\* C5: unlimited allowance.  If allowance(owner, spender) is MAX, then after
\* a transfer_from call by spender, successful or rejected and for any
\* arguments, it is still MAX (so after any number of them).
C5_UnlimitedAllowance ==
    [][\A o \in Address, s \in Address :
          (/\ _allowances[o][s] = MAX
           /\ Returning("transfer_from") /\ lastOp'.sender = s) =>
              _allowances'[o][s] = MAX]_vars

\* C5 witness: a transfer_from of a positive value returned Ok and the
\* allowance it drew on is MAX.
C5_Witness ==
    /\ Returned("transfer_from") /\ IsOk(lastOp.res) /\ lastOp.value > 0
    /\ _allowances[lastOp.x][lastOp.sender] = MAX

\* C6: approve overwrites, it does not accumulate.  For a non-null spender s
\* a single approve(s, v) by caller c yields allowance(c, s) = v whatever the
\* entry was before, and approve(s, v1) followed by approve(s, v2) by the same
\* caller yields allowance(c, s) = v2 for every v1 and v2.
C6_ApproveOverwrites ==
    [][(Returning("approve") /\ lastOp'.y # ZERO) =>
          LET c == lastOp'.sender
              s == lastOp'.y
              after == [b |-> _balances', a |-> _allowances',
                        t |-> _total_supply']
          IN  /\ IsOk(lastOp'.res)
              /\ _allowances'[c][s] = lastOp'.value
              /\ \A v2 \in U256 :
                    LET second == approve(after, c, s, v2)
                    IN  /\ IsOk(second.res)
                        /\ _get_allowance(second.st, c, s) = v2]_vars

\* C6 witness: an approve with a value that is neither 0 nor MAX has
\* returned Ok and the entry holds that value.
C6_Witness ==
    /\ Returned("approve") /\ IsOk(lastOp.res)
    /\ lastOp.value > 0 /\ lastOp.value < MAX
    /\ _allowances[lastOp.sender][lastOp.y] = lastOp.value

\* C7: _update(from, to, value) with from non-null and balance_of(from) <
\* value returns InsufficientBalance{sender = from, balance = the current
\* balance of from, needed = value} and writes nothing; transfer(to, value)
\* to a non-null `to` returns that error when the caller's balance is below
\* value.
C7_InsufficientBalance ==
    [][/\ (/\ Returning("_update") /\ lastOp'.x # ZERO
           /\ _balances[lastOp'.x] < lastOp'.value) =>
             /\ lastOp'.res = ERC20InsufficientBalance(lastOp'.x,
                                  _balances[lastOp'.x], lastOp'.value)
             /\ UNCHANGED storage
             /\ logs' = <<>>
       /\ (/\ Returning("transfer") /\ lastOp'.y # ZERO
           /\ _balances[lastOp'.sender] < lastOp'.value) =>
             /\ lastOp'.res = ERC20InsufficientBalance(lastOp'.sender,
                                  _balances[lastOp'.sender], lastOp'.value)
             /\ UNCHANGED storage
             /\ logs' = <<>>]_vars

\* C7 witness: an _update out of an account that holds tokens, but fewer
\* than value, has returned InsufficientBalance.
C7_Witness ==
    /\ Returned("_update") /\ lastOp.res.kind = "InsufficientBalance"
    /\ lastOp.x # ZERO /\ _balances[lastOp.x] > 0
    /\ lastOp.res.balance = _balances[lastOp.x]

\* C8: transfer_from(from, to, value) by caller s with allowance(from, s)
\* not MAX and less than value returns InsufficientAllowance{spender = s,
\* allowance = the current allowance, needed = value}; the transfer is not
\* attempted: no balance, no allowance and not the total supply changes, and
\* no event is emitted.
C8_InsufficientAllowance ==
    [][(/\ Returning("transfer_from")
        /\ _allowances[lastOp'.x][lastOp'.sender] # MAX
        /\ _allowances[lastOp'.x][lastOp'.sender] < lastOp'.value) =>
          /\ lastOp'.res = ERC20InsufficientAllowance(lastOp'.sender,
                               _allowances[lastOp'.x][lastOp'.sender],
                               lastOp'.value)
          /\ UNCHANGED storage
          /\ logs' = <<>>]_vars

\* C8 witness: a transfer_from between two accounts has returned
\* InsufficientAllowance although the allowance is not 0 and `from` holds at
\* least value.
C8_Witness ==
    /\ Returned("transfer_from") /\ lastOp.res.kind = "InsufficientAllowance"
    /\ lastOp.x # ZERO /\ lastOp.y # ZERO
    /\ lastOp.res.allowance > 0
    /\ _balances[lastOp.x] >= lastOp.value

\* C9: in transfer_from, when the spend succeeds on a finite allowance and
\* the internal transfer is then rejected (insufficient balance of from, or a
\* zero-address endpoint), the allowance is not rolled back: when the error
\* is returned allowance(from, caller) is lower than before the call by value.
C9_NoRollback ==
    [][(/\ Returning("transfer_from") /\ IsErr(lastOp'.res)
        /\ _allowances[lastOp'.x][lastOp'.sender] # MAX
        /\ _allowances[lastOp'.x][lastOp'.sender] >= lastOp'.value) =>
          /\ lastOp'.res.kind \in
                {"InsufficientBalance", "InvalidSender", "InvalidReceiver"}
          /\ _allowances'[lastOp'.x][lastOp'.sender] =
                _allowances[lastOp'.x][lastOp'.sender] - lastOp'.value]_vars

\* C9 witness: a transfer_from of a positive value has returned
\* InsufficientBalance after spending a finite allowance.
C9_Witness ==
    /\ Returned("transfer_from") /\ lastOp.res.kind = "InsufficientBalance"
    /\ lastOp.value > 0
    /\ _allowances[lastOp.x][lastOp.sender] # MAX

\* C10: for every ledger state, caller and value, transfer_from(from, to,
\* value) with from the zero address returns InvalidSender{sender = zero
\* address}.
C10_InvalidSender ==
    (Returned("transfer_from") /\ lastOp.x = ZERO) =>
        lastOp.res = ERC20InvalidSender(ZERO)

\* C11: for every ledger state, caller and value, transfer(to, value) and
\* transfer_from(from, to, value) with to the zero address return
\* InvalidReceiver{receiver = zero address}.
C11_InvalidReceiver ==
    ((Returned("transfer") \/ Returned("transfer_from")) /\ lastOp.y = ZERO) =>
        lastOp.res = ERC20InvalidReceiver(ZERO)

\* C12: approve(spender, value) with spender the zero address returns
\* InvalidSpender{spender = zero address} for every value and caller, writes
\* no allowance entry and emits no Approval event.
C12_InvalidSpender ==
    [][(Returning("approve") /\ lastOp'.y = ZERO) =>
          /\ lastOp'.res = ERC20InvalidSpender(ZERO)
          /\ UNCHANGED storage
          /\ logs' = <<>>]_vars

\* C12 witness: an approve of a positive value for the zero address has
\* returned InvalidSpender.
C12_Witness ==
    /\ Returned("approve") /\ lastOp.y = ZERO /\ lastOp.value > 0
    /\ lastOp.res.kind = "InvalidSpender"

\* C13: mint.  _update(ZERO, to, value) with to non-null and total_supply +
\* value within range returns Ok, raises the total supply by exactly value and
\* balance_of(to) by exactly value, changes no other balance and no
\* allowance, and emits one Transfer(ZERO, to, value).
C13_Mint ==
    [][(/\ Returning("_update") /\ lastOp'.x = ZERO /\ lastOp'.y # ZERO
        /\ _total_supply + lastOp'.value <= MAX) =>
          LET to == lastOp'.y
          IN  /\ IsOk(lastOp'.res)
              /\ _total_supply' = _total_supply + lastOp'.value
              /\ _balances'[to] = _balances[to] + lastOp'.value
              /\ \A a \in Address \ {to} : _balances'[a] = _balances[a]
              /\ _allowances' = _allowances
              /\ logs' = <<Transfer(ZERO, to, lastOp'.value)>>]_vars

\* C13 witness: a mint of a positive value to an account that already held
\* tokens has returned Ok.
C13_Witness ==
    /\ Returned("_update") /\ lastOp.x = ZERO /\ lastOp.y # ZERO
    /\ IsOk(lastOp.res) /\ lastOp.value > 0
    /\ _balances[lastOp.y] > lastOp.value

\* C14: a ledger operation panics if and only if it is an _update with from
\* the zero address whose value would take the total supply past MAX; the
\* panic comes before any storage write (and any event), and no other
\* operation panics in any reachable state.
C14_OnlyMintOverflowPanics ==
    [][/\ (lastOp'.res.kind = "Panic") <=>
             (/\ Returning("_update") /\ lastOp'.x = ZERO
              /\ _total_supply + lastOp'.value > MAX)
       /\ (lastOp'.res.kind = "Panic") =>
             (UNCHANGED storage /\ logs' = <<>>)]_vars

\* C14 witness: a mint of a value that fits a U256 by itself has panicked on
\* a ledger whose total supply is not 0.
C14_Witness ==
    /\ Returned("_update") /\ lastOp.res.kind = "Panic"
    /\ lastOp.x = ZERO /\ lastOp.y # ZERO
    /\ _total_supply > 0 /\ _total_supply + lastOp.value > MAX

\* C15: _burn(account, value) returns InvalidSender when account is the zero
\* address; otherwise, when balance_of(account) >= value, it lowers
\* balance_of(account) and the total supply by exactly value each and changes
\* nothing else, and when balance_of(account) < value it returns
\* InsufficientBalance.
C15_Burn ==
    [][Returning("_burn") =>
          LET account == lastOp'.x
              value == lastOp'.value
          IN  IF account = ZERO
              THEN /\ lastOp'.res = ERC20InvalidSender(ZERO)
                   /\ UNCHANGED storage
              ELSE IF _balances[account] >= value
              THEN /\ IsOk(lastOp'.res)
                   /\ _balances'[account] = _balances[account] - value
                   /\ _total_supply' = _total_supply - value
                   /\ \A a \in Address \ {account} :
                         _balances'[a] = _balances[a]
                   /\ _allowances' = _allowances
              ELSE /\ lastOp'.res = ERC20InsufficientBalance(account,
                                        _balances[account], value)
                   /\ UNCHANGED storage]_vars

\* C15 witness: a burn of a positive value has returned Ok and left the
\* account with part of its tokens, on a ledger with an allowance set.
C15_Witness ==
    /\ Returned("_burn") /\ IsOk(lastOp.res) /\ lastOp.value > 0
    /\ _balances[lastOp.x] > 0
    /\ \E o \in Sender, s \in Sender : _allowances[o][s] > 0

\* The Transfer events among the events of the call that has returned.
TransferEvents == SelectSeq(logs, LAMBDA e : e.event = "Transfer")

ApprovalEvents == SelectSeq(logs, LAMBDA e : e.event = "Approval")

\* C16: exactly one Transfer(from, to, value) event is emitted by each
\* successful _update (and so by each successful _burn, transfer and
\* transfer_from), with the from, to and value of the call, also when from
\* or to is the zero address and when value is 0; a rejected _update,
\* _burn, transfer or transfer_from emits no Transfer event, and neither do
\* the other operations.
C16_TransferEvent ==
    IF lastOp.name \in {"_update", "_burn", "transfer", "transfer_from"}
       /\ IsOk(lastOp.res)
    THEN TransferEvents = <<Transfer(lastOp.x, lastOp.y, lastOp.value)>>
    ELSE TransferEvents = <<>>

\* C16 witness: an _update from the zero address to the zero address with
\* value 0 has returned Ok and emitted its Transfer event.
C16_Witness ==
    /\ Returned("_update") /\ IsOk(lastOp.res)
    /\ lastOp.x = ZERO /\ lastOp.y = ZERO /\ lastOp.value = 0
    /\ Len(logs) = 1

\* C17: exactly one Approval(owner, spender, value) event is emitted by each
\* successful approve, with owner the caller and value the new allowance
\* itself (not its change); transfer_from emits no Approval event, although
\* it changes the allowance, and neither does any other operation.
C17_ApprovalEvent ==
    IF Returned("approve") /\ IsOk(lastOp.res)
    THEN /\ ApprovalEvents = <<Approval(lastOp.sender, lastOp.y, lastOp.value)>>
         /\ ApprovalEvents[1].value = _allowances[lastOp.sender][lastOp.y]
    ELSE ApprovalEvents = <<>>

\* C17 witness: an approve has returned Ok with one Approval event carrying
\* a value above 0, the allowance now stored.
C17_Witness ==
    /\ Returned("approve") /\ IsOk(lastOp.res)
    /\ Len(logs) = 1 /\ logs[1].event = "Approval" /\ logs[1].value > 0
    /\ logs[1].value = _allowances[logs[1].owner][logs[1].spender]

\* C18: transfer always takes the caller as the source: for every call
\* transfer(to, value) by caller c, whatever the arguments, no account other
\* than c has its balance lowered.
C18_TransferBindsCaller ==
    [][Returning("transfer") =>
          \A a \in Address \ {lastOp'.sender} :
              _balances'[a] >= _balances[a]]_vars

\* C18 witness: a transfer of a positive value to another account has
\* returned Ok and taken the caller's last tokens while the receiver held
\* tokens already.
C18_Witness ==
    /\ Returned("transfer") /\ IsOk(lastOp.res) /\ lastOp.value > 0
    /\ lastOp.y # lastOp.sender
    /\ _balances[lastOp.sender] = 0
    /\ _balances[lastOp.y] > lastOp.value

\* C19: total_supply(), balance_of(account) and allowance(owner, spender)
\* never fail and never change a balance, an allowance or the total supply;
\* they return the stored value, which is 0 for an account or an (owner,
\* spender) pair that was never written (as on the empty ledger, and as for
\* the zero address).
C19_Getters ==
    [][lastOp'.name \in {"total_supply", "balance_of", "allowance"} =>
          /\ IsOk(lastOp'.res)
          /\ UNCHANGED storage
          /\ logs' = <<>>
          /\ Returning("total_supply") => lastOp'.res.ret = _total_supply
          /\ Returning("balance_of") =>
                /\ lastOp'.res.ret = _balances[lastOp'.x]
                /\ lastOp'.x = ZERO => lastOp'.res.ret = 0
          /\ Returning("allowance") =>
                lastOp'.res.ret = _allowances[lastOp'.x][lastOp'.y]
          /\ (/\ _total_supply = 0
              /\ \A a \in Address : _balances[a] = 0
              /\ \A o \in Address, p \in Address : _allowances[o][p] = 0) =>
                lastOp'.res.ret = 0]_vars

\* C19 witness: total_supply() has returned a value above 0 that differs
\* from the balance of either account.
C19_Witness ==
    /\ Returned("total_supply") /\ lastOp.res.ret > 0
    /\ lastOp.res.ret # _balances[alice] /\ lastOp.res.ret # _balances[bob]

\* C20: the errors of each public operation form a closed set.  With a
\* non-null caller, transfer fails only with InvalidReceiver or
\* InsufficientBalance, approve only with InvalidSpender, transfer_from only
\* with InvalidSender, InvalidReceiver, InsufficientAllowance or
\* InsufficientBalance (none of them panics), and the error is the one the
\* sub-step built, with its fields, not a wrapping of it.
C20_ClosedErrors ==
    LET c == lastOp.sender
        from == lastOp.x
        to == lastOp.y
        InsufficientBalance ==
            ERC20InsufficientBalance(from, _balances[from], lastOp.value)
        InsufficientAllowance ==
            ERC20InsufficientAllowance(c, _allowances[from][c], lastOp.value)
    IN  /\ (Returned("transfer") /\ ~IsOk(lastOp.res)) =>
              \/ lastOp.res = ERC20InvalidReceiver(ZERO)
              \/ lastOp.res = InsufficientBalance
        /\ (Returned("approve") /\ ~IsOk(lastOp.res)) =>
              lastOp.res = ERC20InvalidSpender(ZERO)
        /\ (Returned("transfer_from") /\ ~IsOk(lastOp.res)) =>
              \/ lastOp.res = ERC20InvalidSender(ZERO)
              \/ lastOp.res = ERC20InvalidReceiver(ZERO)
              \/ lastOp.res = InsufficientAllowance
              \/ lastOp.res = InsufficientBalance

\* C20 witness: a transfer_from has returned InvalidSender, the error built
\* by _transfer two calls down.
C20_Witness ==
    /\ Returned("transfer_from") /\ lastOp.res.kind = "InvalidSender"
    /\ _total_supply > 0

\* C29: in _update, the subtraction total_supply - value made when to is the
\* zero address never underflows, for every from (the zero address included:
\* _update(ZERO, ZERO, value)).  The supply left by such a step is the operand
\* minus value; the operand is at most MAX, so the difference was not wrapped
\* exactly when the supply left plus value is still at most MAX.
C29_BurnNeverUnderflows ==
    (/\ lastOp.name \in {"_update", "_burn", "transfer", "transfer_from"}
     /\ lastOp.y = ZERO
     /\ IsOk(lastOp.res)) =>
        _total_supply + lastOp.value <= MAX

\* C29 witness: _update(ZERO, ZERO, value) has succeeded with a value above 0
\* on a ledger that has a supply.
C29_Witness ==
    /\ Returned("_update") /\ IsOk(lastOp.res)
    /\ lastOp.x = ZERO /\ lastOp.y = ZERO
    /\ lastOp.value > 0
    /\ _total_supply > 0

\* C30: in _update, the addition balance(to) + value made when to is not the
\* zero address never passes MAX, also when from = to.  The balance left is
\* the operand plus value; it was not wrapped exactly when it is still at least
\* value.
C30_CreditNeverOverflows ==
    (/\ lastOp.name \in {"_update", "_burn", "transfer", "transfer_from"}
     /\ lastOp.y # ZERO
     /\ IsOk(lastOp.res)) =>
        _balances[lastOp.y] >= lastOp.value

\* C30 witness: an account holding MAX has transferred MAX to itself.
C30_Witness ==
    /\ Returned("transfer") /\ IsOk(lastOp.res)
    /\ lastOp.x = lastOp.y
    /\ lastOp.value = MAX
    /\ _balances[lastOp.y] = MAX

\* C31: the zero address never holds a balance: in every state reachable
\* from the empty ledger balance_of(Address::ZERO) is 0, also after
\* _update(ZERO, ZERO, value) and after a burn.
C31_ZeroAddressHoldsNothing ==
    /\ balance_of(ERC20, ZERO).res = OkValue(0)
    /\ (Returned("balance_of") /\ lastOp.x = ZERO) => lastOp.res = OkValue(0)

\* C31 witness: _update(ZERO, ZERO, value) has succeeded with a value above 0
\* on a ledger that holds tokens.
C31_Witness ==
    /\ Returned("_update")
    /\ IsOk(lastOp.res)
    /\ lastOp.x = ZERO
    /\ lastOp.y = ZERO
    /\ lastOp.value > 0
    /\ _total_supply > 0
    /\ _balances[ZERO] = 0

\* C32: balances and total supply change only inside _update: approve and
\* _spend_allowance, successful or rejected, leave every balance and the supply
\* as they were, transfer and transfer_from leave the supply as it was, and a
\* step that changes a balance or the supply is a successful _update, _burn,
\* transfer or transfer_from.
C32_OnlyUpdateMovesValue ==
    [][/\ lastOp'.name \in {"approve", "_spend_allowance"} =>
              /\ _balances' = _balances
              /\ _total_supply' = _total_supply
       /\ lastOp'.name \in {"transfer", "transfer_from"} =>
              _total_supply' = _total_supply
       /\ (_balances' # _balances \/ _total_supply' # _total_supply) =>
              /\ lastOp'.name \in {"_update", "_burn", "transfer",
                                   "transfer_from"}
              /\ IsOk(lastOp'.res)]_vars

\* C32 witness: a transfer of a value above 0 has succeeded and has left the
\* supply, which is above that value, to the accounts.
C32_Witness ==
    /\ Returned("transfer")
    /\ IsOk(lastOp.res)
    /\ lastOp.value > 0
    /\ lastOp.x # lastOp.y
    /\ _total_supply > lastOp.value

\* C33: allowance frame.  approve(spender, value) by caller c changes no
\* entry but (c, spender); transfer_from(from, to, value) by caller s changes
\* no entry but (from, s); transfer, _burn and _update change no entry.
C33_AllowanceFrame ==
    [][/\ Returning("approve") =>
              \A o \in Address, s \in Address :
                  <<o, s>> # <<lastOp'.sender, lastOp'.y>> =>
                      _allowances'[o][s] = _allowances[o][s]
       /\ Returning("transfer_from") =>
              \A o \in Address, s \in Address :
                  <<o, s>> # <<lastOp'.x, lastOp'.sender>> =>
                      _allowances'[o][s] = _allowances[o][s]
       /\ lastOp'.name \in {"transfer", "_burn", "_update"} =>
              _allowances' = _allowances]_vars

\* C33 witness: a transfer_from has spent a part of a limited allowance while
\* another entry of the table was above 0.
C33_Witness ==
    /\ Returned("transfer_from")
    /\ IsOk(lastOp.res)
    /\ lastOp.value > 0
    /\ _allowances[lastOp.x][lastOp.sender] + lastOp.value < MAX
    /\ \E o \in Address, s \in Address :
           /\ <<o, s>> # <<lastOp.x, lastOp.sender>>
           /\ _allowances[o][s] > 0

\* C35: a self-transfer is accepted and is neutral: _update(a, a, value) with
\* a non-null and a balance of at least value, and so transfer(to = caller,
\* value), succeeds, leaves every balance and the supply as they were and
\* still emits Transfer(a, a, value).
C35_SelfTransferIsNeutral ==
    [][(/\ lastOp'.name \in {"_update", "transfer"}
        /\ lastOp'.x = lastOp'.y
        /\ lastOp'.x # ZERO
        /\ _balances[lastOp'.x] >= lastOp'.value) =>
           /\ IsOk(lastOp'.res)
           /\ _balances' = _balances
           /\ _total_supply' = _total_supply
           /\ logs' = <<Transfer(lastOp'.x, lastOp'.x, lastOp'.value)>>]_vars

\* C35 witness: an account has transferred a value above 0 to itself.
C35_Witness ==
    /\ Returned("transfer")
    /\ IsOk(lastOp.res)
    /\ lastOp.x = lastOp.y
    /\ lastOp.value > 0
    /\ _balances[lastOp.x] >= lastOp.value
    /\ logs = <<Transfer(lastOp.x, lastOp.x, lastOp.value)>>

\* ------------------------------------------------- one approval, followed
\* The ledger again, with history following one pair (owner, spender): the
\* value of the owner's last approve for the spender, whether it is below
\* U256::MAX (open), and the sum of the values of the spender's successful
\* transfer_from calls out of the owner's account since then.  A call here
\* returns at once: lastOp and logs are not kept, the contract is idle again.
Track(name, sender, x, y, value, res) ==
    IF name = "approve" /\ IsOk(res)
       /\ sender = history.owner /\ y = history.spender
    THEN [history EXCEPT !.open = value < MAX,
                         !.approved = IF value < MAX THEN value ELSE 0,
                         !.spent = 0]
    ELSE IF name = "transfer_from" /\ IsOk(res) /\ history.open
            /\ x = history.owner /\ sender = history.spender
    THEN [history EXCEPT !.spent = @ + value]
    ELSE history

TrackedCall(name, sender, x, y, value, out) ==
    /\ _balances' = out.st.b
    /\ _allowances' = out.st.a
    /\ _total_supply' = out.st.t
    /\ history' = Track(name, sender, x, y, value, out.res)
    /\ UNCHANGED <<lastOp, logs, vesting_wallet, chain>>

TrackedInit ==
    /\ EmptyLedger
    /\ vesting_wallet = [deployed |-> FALSE]
    /\ chain = [deployed |-> FALSE]
    /\ \E o \in Sender, s \in Sender :
           history = [owner |-> o, spender |-> s, open |-> FALSE,
                      approved |-> 0, spent |-> 0]
    /\ lastOp = Idle
    /\ logs = <<>>

TrackedUpdate ==
    /\ lastOp = Idle
    /\ \E from \in Address, to \in Address, value \in U256 :
           TrackedCall("_update", ZERO, from, to, value,
                       _update(ERC20, from, to, value))

TrackedBurn ==
    /\ lastOp = Idle
    /\ \E account \in Address, value \in U256 :
           TrackedCall("_burn", ZERO, account, ZERO, value,
                       _burn(ERC20, account, value))

TrackedSpendAllowance ==
    /\ lastOp = Idle
    /\ \E o \in Address, s \in Address, value \in U256 :
           TrackedCall("_spend_allowance", ZERO, o, s, value,
                       _spend_allowance(ERC20, o, s, value))

TrackedTransfer ==
    /\ lastOp = Idle
    /\ \E sender \in Sender, to \in Address, value \in U256 :
           TrackedCall("transfer", sender, sender, to, value,
                       transfer(ERC20, sender, to, value))

\* approve, called by the owner followed: the approvals of another caller
\* write that caller's own entries only (C33) and are left out here.
TrackedApprove ==
    /\ lastOp = Idle
    /\ \E s \in Address, value \in U256 :
           TrackedCall("approve", history.owner, history.owner, s, value,
                       approve(ERC20, history.owner, s, value))

TrackedTransferFrom ==
    /\ lastOp = Idle
    /\ \E sender \in Sender, from \in Address, to \in Address, value \in U256 :
           TrackedCall("transfer_from", sender, from, to, value,
                       transfer_from(ERC20, sender, from, to, value))

TrackedNext ==
    \/ TrackedUpdate
    \/ TrackedBurn
    \/ TrackedSpendAllowance
    \/ TrackedTransfer
    \/ TrackedApprove
    \/ TrackedTransferFrom

TrackedSpec == TrackedInit /\ [][TrackedNext]_vars

\* C34: delegated spending is bounded by the approval: after owner o has
\* called approve(s, A) with A below U256::MAX, and until o's next approve
\* for s, the values of the successful transfer_from(o, ., v) calls made by s
\* sum to at most A.
C34_SpendingBoundedByApproval ==
    history.open => history.spent <= history.approved

\* C34 witness: the spender has used up, by transfer_from, an approval that
\* was above 0 and below U256::MAX, and the owner still holds tokens.
C34_Witness ==
    /\ history.open
    /\ history.owner # history.spender
    /\ history.spent > 0
    /\ history.spent = history.approved
    /\ _allowances[history.owner][history.spender] = 0
    /\ _balances[history.owner] > 0

\* ============================================================ VestingWallet
\* finance/vesting_wallet/mod.rs and examples/vesting-wallet/src/lib.rs.
\* U64::MAX, scaled down: a block timestamp, start and duration are numbers
\* in 0..MaxTime.
MaxTime == 3

U64 == 0 .. MaxTime

\* contract::address(), the wallet itself.
this == "0x7E57"

\* The token contracts the wallet is asked about.
tk1 == "0x7001"
tk2 == "0x7002"

Token == {tk1, tk2}

\* U256 `*` and `/` (ruint): `*` wraps, `/` panics on a zero divisor.
wrapping_mul(a, b) == (a * b) % (MAX + 1)

div(a, b) == IF b = 0 THEN Panic ELSE OkValue(a \div b)

\* ------------------------------------------------------- events and errors
EtherReleased(beneficiary, value) ==
    [event |-> "EtherReleased", beneficiary |-> beneficiary, value |-> value]

ERC20Released(beneficiary, token, value) ==
    [event |-> "ERC20Released", beneficiary |-> beneficiary, token |-> token,
     value |-> value]

OwnershipTransferred(previous_owner, new_owner) ==
    [event |-> "OwnershipTransferred", previous_owner |-> previous_owner,
     new_owner |-> new_owner]

RemoteContractCallFailed == [kind |-> "RemoteContractCallFailed"]

\* The encoded error transfer_eth hands back when the payment reverts.
TransferEthFailed == [kind |-> "TransferEthFailed"]

OwnableUnauthorizedAccount(account) ==
    [kind |-> "OwnableUnauthorizedAccount", account |-> account]

OwnableInvalidOwner(account) ==
    [kind |-> "OwnableInvalidOwner", owner |-> account]

\* What a wallet function hands back: the wallet storage W and the chain C
\* it leaves, its Result, its events, and the payment it made (amount to `to`,
\* ether or token), if it made one.
NoPayment == [made |-> FALSE]

Payment(to, amount) == [made |-> TRUE, to |-> to, amount |-> amount]

WOutcome(W, C, res, ev, paid) ==
    [w |-> W, c |-> C, res |-> res, ev |-> ev, paid |-> paid]

\* ----------------------------------------------------------------- getters
\* U64 to U256 (`.to()`): the number is kept, every U64 fits a U256.
start(W) == W.start

duration(W) == W.duration

\* Mutant of end: the end is the start.
end_is_start(W) == start(W)

\* U256 `+` of two numbers that came from a U64: the sum is below 2^65 and
\* is never wrapped, so it is kept whole here as well.
end(W) == start(W) + duration(W)

released_eth(W) == W.eth_released

released_erc20(W, token) == W.erc20_released[token]

owner(W) == W.ownable._owner

\* Mutant of vesting_schedule: the end itself is not yet fully vested.
vesting_schedule_end_excluded(W, total_alloc, timestamp) ==
    IF timestamp < start(W)
    THEN OkValue(0)
    ELSE IF timestamp > end(W)
    THEN OkValue(total_alloc)
    ELSE div(wrapping_mul(total_alloc, wrapping_sub(timestamp, start(W))),
             duration(W))

\* The vesting formula: its U256 result, or Panic.
vesting_schedule(W, total_alloc, timestamp) ==
    IF timestamp < start(W)
    THEN OkValue(0)
    ELSE IF timestamp >= end(W)
    THEN OkValue(total_alloc)
    ELSE div(wrapping_mul(total_alloc, wrapping_sub(timestamp, start(W))),
             duration(W))

vested_eth_amount(W, C, timestamp) ==
    vesting_schedule(W, wrapping_add(C.balance, released_eth(W)), timestamp)

releasable_eth(W, C) ==
    LET vested == vested_eth_amount(W, C, C.timestamp)
    IN  IF ~IsOk(vested)
        THEN vested
        ELSE OkValue(wrapping_sub(vested.ret, released_eth(W)))

\* ------------------------------------------------------ the token contracts
\* How the contract at `token` answers this call: as the ERC-20 of this
\* repository, or by reverting a balance_of, reverting a transfer, or
\* returning false from a transfer.
Remote == {"erc20", "balance_of_reverts", "transfer_reverts", "transfer_false"}

Reverted == [kind |-> "Reverted"]

\* The ledger of the ERC-20 at `token` as the wallet's calls see it: the
\* wallet's balance there.  What the other accounts hold there is not kept.
RemoteLedger(C, token) ==
    [b |-> [a \in Address \cup {this} |->
                IF a = this THEN C.erc20[token] ELSE 0],
     a |-> <<>>,
     t |-> C.erc20[token]]

\* Erc20::balance_of(contract::address()) at `token`: its Result.
remote_balance_of(C, token, remote) ==
    IF remote = "balance_of_reverts"
    THEN Reverted
    ELSE balance_of(RemoteLedger(C, token), this).res

\* Erc20::transfer(to, amount) at `token`, called by the wallet: the chain it
\* leaves and its Result.  A call that reverts leaves the token as it was.
remote_transfer(C, token, to, amount, remote) ==
    IF remote = "transfer_reverts"
    THEN [c |-> C, res |-> Reverted]
    ELSE IF remote = "transfer_false"
    THEN [c |-> C, res |-> OkValue(FALSE)]
    ELSE LET out == transfer(RemoteLedger(C, token), this, to, amount)
         IN  IF IsOk(out.res)
             THEN [c |-> [C EXCEPT !.erc20[token] = out.st.b[this]],
                   res |-> out.res]
             ELSE [c |-> C, res |-> Reverted]

\* call::transfer_eth(to, amount): the chain it leaves and its Result.  It
\* fails when the wallet holds less than amount or the receiver refuses.
transfer_eth(C, to, amount, accepts) ==
    IF amount > C.balance \/ ~accepts
    THEN [c |-> C, res |-> TransferEthFailed]
    ELSE [c |-> [C EXCEPT !.balance = C.balance - amount], res |-> OkUnit]

\* ------------------------------------------------------------ VestingWallet
_vested_erc20_amount(W, C, token, timestamp, remote) ==
    LET balance == remote_balance_of(C, token, remote)
    IN  IF ~IsOk(balance)
        THEN RemoteContractCallFailed
        ELSE vesting_schedule(W,
                 wrapping_add(balance.ret, released_erc20(W, token)), timestamp)

vested_erc20_amount(W, C, token, timestamp, remote) ==
    _vested_erc20_amount(W, C, token, timestamp, remote)

releasable_erc20(W, C, token, remote) ==
    LET vested_erc20 == vested_erc20_amount(W, C, token, C.timestamp, remote)
    IN  IF ~IsOk(vested_erc20)
        THEN vested_erc20
        ELSE OkValue(wrapping_sub(vested_erc20.ret, released_erc20(W, token)))

\* Mutant of _release_eth: the ether goes to a fixed account, not the owner.
_release_eth_pays_alice(W, C, accepts) ==
    LET amount == releasable_eth(W, C)
    IN  IF ~IsOk(amount)
        THEN WOutcome(W, C, amount, <<>>, NoPayment)
        ELSE IF ~checked_add(W.eth_released, amount.ret).is_some
        THEN WOutcome(W, C, Panic, <<>>, NoPayment)
        ELSE LET call == transfer_eth(C, alice, amount.ret, accepts)
             IN  IF ~IsOk(call.res)
                 THEN WOutcome(W, C, call.res, <<>>, NoPayment)
                 ELSE WOutcome(W, call.c, OkUnit,
                               <<EtherReleased(alice, amount.ret)>>,
                               Payment(alice, amount.ret))

\* The sum of checked_add is unwrapped (a panic on overflow) and dropped:
\* eth_released is not written.
_release_eth(W, C, accepts) ==
    LET amount == releasable_eth(W, C)
    IN  IF ~IsOk(amount)
        THEN WOutcome(W, C, amount, <<>>, NoPayment)
        ELSE IF ~checked_add(W.eth_released, amount.ret).is_some
        THEN WOutcome(W, C, Panic, <<>>, NoPayment)
        ELSE LET to == owner(W)
                 call == transfer_eth(C, to, amount.ret, accepts)
             IN  IF ~IsOk(call.res)
                 THEN WOutcome(W, C, call.res, <<>>, NoPayment)
                 ELSE WOutcome(W, call.c, OkUnit,
                               <<EtherReleased(to, amount.ret)>>,
                               Payment(to, amount.ret))

\* Mutant of _release_erc20: the amount is added to the count of every token.
_release_erc20_counts_all(W, C, token, remote) ==
    LET amount == releasable_erc20(W, C, token, remote)
    IN  IF ~IsOk(amount)
        THEN WOutcome(W, C, amount, <<>>, NoPayment)
        ELSE LET written ==
                     [W EXCEPT !.erc20_released =
                         [t \in Token |-> wrapping_add(@[t], amount.ret)]]
                 to == owner(W)
                 call == remote_transfer(C, token, to, amount.ret, remote)
             IN  IF ~IsOk(call.res) \/ ~call.res.ret
                 THEN WOutcome(written, C, RemoteContractCallFailed, <<>>,
                               NoPayment)
                 ELSE WOutcome(written, call.c, OkUnit,
                               <<ERC20Released(to, token, amount.ret)>>,
                               Payment(to, amount.ret))

\* Mutant of _release_erc20: a transfer that returns false counts as made.
_release_erc20_ignores_false(W, C, token, remote) ==
    LET amount == releasable_erc20(W, C, token, remote)
    IN  IF ~IsOk(amount)
        THEN WOutcome(W, C, amount, <<>>, NoPayment)
        ELSE LET written ==
                     [W EXCEPT !.erc20_released[token] =
                                   wrapping_add(@, amount.ret)]
                 to == owner(W)
                 call == remote_transfer(C, token, to, amount.ret, remote)
             IN  IF ~IsOk(call.res)
                 THEN WOutcome(written, C, RemoteContractCallFailed, <<>>,
                               NoPayment)
                 ELSE WOutcome(written, call.c, OkUnit,
                               <<ERC20Released(to, token, amount.ret)>>,
                               Payment(to, amount.ret))

\* erc20_released is written (add_assign_unchecked, wrapping) before the
\* transfer is tried; the Err of a failed transfer is returned with the
\* write made.
_release_erc20(W, C, token, remote) ==
    LET amount == releasable_erc20(W, C, token, remote)
    IN  IF ~IsOk(amount)
        THEN WOutcome(W, C, amount, <<>>, NoPayment)
        ELSE LET written ==
                     [W EXCEPT !.erc20_released[token] =
                                   wrapping_add(@, amount.ret)]
                 to == owner(W)
                 call == remote_transfer(C, token, to, amount.ret, remote)
             IN  IF ~IsOk(call.res) \/ ~call.res.ret
                 THEN WOutcome(written, C, RemoteContractCallFailed, <<>>,
                               NoPayment)
                 ELSE WOutcome(written, call.c, OkUnit,
                               <<ERC20Released(to, token, amount.ret)>>,
                               Payment(to, amount.ret))

release_eth(W, C, accepts) == _release_eth(W, C, accepts)

release_erc20(W, C, token, remote) == _release_erc20(W, C, token, remote)

\* ------------------------------------------------------------------ Ownable
only_owner(W, sender) ==
    IF sender # owner(W) THEN OwnableUnauthorizedAccount(sender) ELSE OkUnit

_transfer_ownership(W, new_owner) ==
    [w |-> [W EXCEPT !.ownable._owner = new_owner],
     ev |-> <<OwnershipTransferred(owner(W), new_owner)>>]

transfer_ownership(W, C, sender, new_owner) ==
    IF ~IsOk(only_owner(W, sender))
    THEN WOutcome(W, C, only_owner(W, sender), <<>>, NoPayment)
    ELSE IF new_owner = ZERO
    THEN WOutcome(W, C, OwnableInvalidOwner(ZERO), <<>>, NoPayment)
    ELSE LET set == _transfer_ownership(W, new_owner)
         IN  WOutcome(set.w, C, OkUnit, set.ev, NoPayment)

renounce_ownership(W, C, sender) ==
    IF ~IsOk(only_owner(W, sender))
    THEN WOutcome(W, C, only_owner(W, sender), <<>>, NoPayment)
    ELSE LET set == _transfer_ownership(W, ZERO)
         IN  WOutcome(set.w, C, OkUnit, set.ev, NoPayment)

\* ----------------------------------------------------- VestingWalletExample
\* Mutant of VestingWalletExample_release_eth: no check of the caller.
VestingWalletExample_release_eth_open(W, C, sender, accepts) ==
    release_eth(W, C, accepts)

VestingWalletExample_release_eth(W, C, sender, accepts) ==
    IF sender # owner(W)
    THEN WOutcome(W, C, OkUnit, <<>>, NoPayment)
    ELSE release_eth(W, C, accepts)

VestingWalletExample_release_erc20(W, C, sender, token, remote) ==
    IF sender # owner(W)
    THEN WOutcome(W, C, OkUnit, <<>>, NoPayment)
    ELSE release_erc20(W, C, token, remote)

\* ----------------------------------------------------------- wallet actions
\* lastOp while no wallet call has returned.
WIdle == [name |-> "idle", sender |-> ZERO, x |-> ZERO, value |-> 0,
          remote |-> "none", res |-> OkUnit, paid |-> NoPayment]

WALLET == vesting_wallet

CHAIN == chain

\* The ether paid out by a call, for the history.
EthPaid(name, out) ==
    IF name \in {"release_eth", "VestingWalletExample_release_eth"}
       /\ out.paid.made
    THEN out.paid.amount
    ELSE 0

\* The wallet is called through the entrypoint of the deployed contract, as a
\* transaction: a call that returns Err, or panics, reverts, and the chain
\* keeps nothing of what it wrote, paid or logged.
user_entrypoint(W, C, out) ==
    IF IsOk(out.res) THEN out ELSE WOutcome(W, C, out.res, <<>>, NoPayment)

\* One call of the wallet (taken only while idle): the wallet and the chain
\* become what the transaction left, lastOp and logs record it.  lastOp
\* fields: sender is the caller where the function reads it, x is the token
\* or the new owner, value the ether sent along, remote how the token
\* contract answered, paid the payment.
WCall(name, sender, x, remote, call) ==
    LET out == user_entrypoint(WALLET, CHAIN, call)
    IN  /\ vesting_wallet' = out.w
        /\ chain' = out.c
        /\ history' = [history EXCEPT !.eth_paid = @ + EthPaid(name, out)]
        /\ lastOp' = [name |-> name, sender |-> sender, x |-> x, value |-> 0,
                      remote |-> remote, res |-> out.res, paid |-> out.paid]
        /\ logs' = out.ev
        /\ UNCHANGED storage

\* The constructor: beneficiary (not the zero address), startTimestamp and
\* durationSeconds; the wallet holds nothing yet.  The wallet is deployed one
\* block ahead of its start (the clock below starts at 0 and a later
\* deployment is this one with some blocks gone by).
WInit ==
    /\ EmptyLedger
    /\ \E durationSeconds \in U64 :
           /\ vesting_wallet =
                  [eth_released |-> 0,
                   erc20_released |-> [t \in Token |-> 0],
                   start |-> 1,
                   duration |-> durationSeconds,
                   ownable |-> [_owner |-> alice]]
    /\ chain = [timestamp |-> 0, balance |-> 0, erc20 |-> [t \in Token |-> 0]]
    /\ history = [eth_received |-> 0, eth_paid |-> 0, erc20_received |-> 0]
    /\ lastOp = WIdle
    /\ logs = <<>>

\* All the ether and tokens ever sent to the wallet.
Deposited == history.eth_received + history.erc20_received

\* receive(), payable: the ether sent is added to the wallet's balance.  The
\* deposits of a run, ether and tokens, sum to at most MAX.
Receive ==
    /\ lastOp = WIdle
    /\ \E value \in U256 :
           /\ Deposited + value <= MAX
           /\ vesting_wallet' = vesting_wallet
           /\ chain' = [chain EXCEPT !.balance = @ + value]
           /\ history' = [history EXCEPT !.eth_received = @ + value]
           /\ lastOp' = [name |-> "receive", sender |-> ZERO, x |-> ZERO,
                         value |-> value, remote |-> "none", res |-> OkUnit,
                         paid |-> NoPayment]
           /\ logs' = <<>>
           /\ UNCHANGED storage

\* Someone mints `value` of a token to the wallet (a call of the token
\* contract, not of the wallet).
Fund ==
    /\ lastOp = WIdle
    /\ \E token \in Token, value \in 1 .. MAX :
           LET out == _update(RemoteLedger(chain, token), ZERO, this, value)
           IN  /\ Deposited + value <= MAX
               /\ IsOk(out.res)
               /\ chain' = [chain EXCEPT !.erc20[token] = out.st.b[this]]
               /\ history' = [history EXCEPT !.erc20_received = @ + value]
               /\ UNCHANGED <<vesting_wallet, lastOp, logs, storage>>

\* The next block: the timestamp grows.
Tick ==
    /\ lastOp = WIdle
    /\ chain.timestamp < MaxTime
    /\ chain' = [chain EXCEPT !.timestamp = @ + 1]
    /\ UNCHANGED <<vesting_wallet, history, lastOp, logs, storage>>

ReleaseEth ==
    /\ lastOp = WIdle
    /\ \E accepts \in BOOLEAN :
           WCall("release_eth", ZERO, ZERO, "none",
                 release_eth(WALLET, CHAIN, accepts))

ReleaseErc20 ==
    /\ lastOp = WIdle
    /\ \E token \in Token, remote \in Remote :
           WCall("release_erc20", ZERO, token, remote,
                 release_erc20(WALLET, CHAIN, token, remote))

ExampleReleaseEth ==
    /\ lastOp = WIdle
    /\ \E sender \in Sender, accepts \in BOOLEAN :
           WCall("VestingWalletExample_release_eth", sender, ZERO, "none",
                 VestingWalletExample_release_eth(WALLET, CHAIN, sender,
                                                  accepts))

ExampleReleaseErc20 ==
    /\ lastOp = WIdle
    /\ \E sender \in Sender, token \in Token, remote \in Remote :
           WCall("VestingWalletExample_release_erc20", sender, token, remote,
                 VestingWalletExample_release_erc20(WALLET, CHAIN, sender,
                                                    token, remote))

TransferOwnership ==
    /\ lastOp = WIdle
    /\ \E sender \in Sender, new_owner \in Address :
           WCall("transfer_ownership", sender, new_owner, "none",
                 transfer_ownership(WALLET, CHAIN, sender, new_owner))

RenounceOwnership ==
    /\ lastOp = WIdle
    /\ \E sender \in Sender :
           WCall("renounce_ownership", sender, ZERO, "none",
                 renounce_ownership(WALLET, CHAIN, sender))

\* A getter: the wallet and the chain stay, lastOp takes the value returned.
WGet(name, x, remote, res) ==
    WCall(name, ZERO, x, remote,
          WOutcome(WALLET, CHAIN, res, <<>>, NoPayment))

Start ==
    /\ lastOp = WIdle
    /\ WGet("start", ZERO, "none", OkValue(start(WALLET)))

Duration ==
    /\ lastOp = WIdle
    /\ WGet("duration", ZERO, "none", OkValue(duration(WALLET)))

End ==
    /\ lastOp = WIdle
    /\ WGet("end", ZERO, "none", OkValue(end(WALLET)))

ReleasedEth ==
    /\ lastOp = WIdle
    /\ WGet("released_eth", ZERO, "none", OkValue(released_eth(WALLET)))

ReleasedErc20 ==
    /\ lastOp = WIdle
    /\ \E token \in Token :
           WGet("released_erc20", token, "none",
                OkValue(released_erc20(WALLET, token)))

ReleasableEth ==
    /\ lastOp = WIdle
    /\ WGet("releasable_eth", ZERO, "none", releasable_eth(WALLET, CHAIN))

ReleasableErc20 ==
    /\ lastOp = WIdle
    /\ \E token \in Token, remote \in Remote :
           WGet("releasable_erc20", token, remote,
                releasable_erc20(WALLET, CHAIN, token, remote))

Owner ==
    /\ lastOp = WIdle
    /\ WGet("owner", ZERO, "none", OkValue(owner(WALLET)))

\* The Result reaches the caller; the wallet stays as the call left it.
WReturn ==
    /\ lastOp # WIdle
    /\ lastOp' = WIdle
    /\ logs' = <<>>
    /\ UNCHANGED <<storage, wallet_vars>>

WNext ==
    \/ Receive
    \/ Fund
    \/ Tick
    \/ ReleaseEth
    \/ ReleaseErc20
    \/ ExampleReleaseEth
    \/ ExampleReleaseErc20
    \/ TransferOwnership
    \/ RenounceOwnership
    \/ Start
    \/ Duration
    \/ End
    \/ ReleasedEth
    \/ ReleasedErc20
    \/ ReleasableEth
    \/ ReleasableErc20
    \/ Owner
    \/ WReturn

WSpec == WInit /\ [][WNext]_vars

\* ------------------------------------------------- the vesting formula alone
\* vesting_schedule applied to every allocation and timestamp, on a wallet
\* built with any start and duration (as the unit tests set them).
ScheduleInit ==
    /\ EmptyLedger
    /\ \E startTimestamp \in U64, durationSeconds \in U64 :
           vesting_wallet =
               [eth_released |-> 0,
                erc20_released |-> [t \in Token |-> 0],
                start |-> startTimestamp,
                duration |-> durationSeconds,
                ownable |-> [_owner |-> alice]]
    /\ chain = [timestamp |-> 0, balance |-> 0, erc20 |-> [t \in Token |-> 0]]
    /\ history = [eth_received |-> 0, eth_paid |-> 0, erc20_received |-> 0]
    /\ lastOp = WIdle
    /\ logs = <<>>

VestingSchedule ==
    /\ lastOp = WIdle
    /\ \E total_alloc \in U256, timestamp \in U64 :
           /\ lastOp' = [name |-> "vesting_schedule",
                         total_alloc |-> total_alloc,
                         timestamp |-> timestamp,
                         res |-> vesting_schedule(WALLET, total_alloc,
                                                  timestamp)]
           /\ logs' = <<>>
           /\ UNCHANGED <<storage, wallet_vars>>

ScheduleNext ==
    \/ VestingSchedule
    \/ WReturn

ScheduleSpec == ScheduleInit /\ [][ScheduleNext]_vars

\* ============================================================ wallet claims
\* C22: vesting_schedule(total_alloc, timestamp) returns 0 when timestamp <
\* start, total_alloc when timestamp >= start + duration, and otherwise
\* floor(total_alloc * (timestamp - start) / duration), the product taken in
\* the integers (linear vesting).
C22_LinearVesting ==
    Returned("vesting_schedule") =>
        LET s == vesting_wallet.start
            d == vesting_wallet.duration
            t == lastOp.timestamp
            a == lastOp.total_alloc
        IN  lastOp.res = OkValue(IF t < s THEN 0
                                 ELSE IF t >= s + d THEN a
                                 ELSE (a * (t - s)) \div d)

\* C23: with duration = 0 the wallet is a time lock: the vested amount is 0
\* for every timestamp < start and the whole allocation for every timestamp
\* >= start, and the division is never made with a zero duration (the
\* formula would panic, not return a value).
C23_TimeLock ==
    (Returned("vesting_schedule") /\ vesting_wallet.duration = 0) =>
        lastOp.res = OkValue(IF lastOp.timestamp < vesting_wallet.start
                             THEN 0
                             ELSE lastOp.total_alloc)

\* C23 witness: a time lock has been asked at its start, and once before it,
\* about an allocation above 0.
C23_Witness ==
    /\ Returned("vesting_schedule")
    /\ vesting_wallet.duration = 0
    /\ vesting_wallet.start > 0
    /\ lastOp.timestamp = vesting_wallet.start
    /\ lastOp.total_alloc > 0
    /\ lastOp.res = OkValue(lastOp.total_alloc)

\* C21: a successful release_eth that releases amount raises released_eth()
\* by amount, so that released_eth() always equals the sum of all the ether
\* released so far.
C21_ReleasedEthIsSum == released_eth(vesting_wallet) = history.eth_paid

\* C24: a successful release_erc20(token) that releases amount =
\* vested_erc20_amount(token, now) - released_erc20(token) raises
\* released_erc20(token) by exactly amount, moves amount of the token from the
\* wallet to the owner of that moment, emits ERC20Released(owner, token,
\* amount) and nothing else, and leaves released_erc20 of every other token
\* and released_eth as they were.
C24_ReleaseErc20 ==
    [][(Returning("release_erc20") /\ IsOk(lastOp'.res)) =>
          LET token == lastOp'.x
              to == owner(vesting_wallet)
              vested == vested_erc20_amount(vesting_wallet, chain, token,
                                            chain.timestamp, "erc20")
              amount == vested.ret - released_erc20(vesting_wallet, token)
          IN  /\ IsOk(vested)
              /\ amount >= 0
              /\ released_erc20(vesting_wallet', token) =
                     released_erc20(vesting_wallet, token) + amount
              /\ chain'.erc20[token] = chain.erc20[token] - amount
              /\ lastOp'.paid = Payment(to, amount)
              /\ logs' = <<ERC20Released(to, token, amount)>>
              /\ \A t \in Token \ {token} :
                     /\ released_erc20(vesting_wallet', t) =
                            released_erc20(vesting_wallet, t)
                     /\ chain'.erc20[t] = chain.erc20[t]
              /\ released_eth(vesting_wallet') = released_eth(vesting_wallet)
              /\ chain'.balance = chain.balance]_vars

\* C24 witness: a release of a token that had been released in part before
\* has paid the owner an amount above 0, while the other token had been
\* released as well.
C24_Witness ==
    /\ Returned("release_erc20")
    /\ IsOk(lastOp.res)
    /\ lastOp.paid.made
    /\ lastOp.paid.amount > 0
    /\ released_erc20(vesting_wallet, lastOp.x) > lastOp.paid.amount
    /\ \E t \in Token \ {lastOp.x} : released_erc20(vesting_wallet, t) > 0

\* C25: the beneficiary of a release is the owner at the time of the call:
\* once transfer_ownership(new_owner) has been made, a release_eth that pays
\* pays new_owner, emits EtherReleased with new_owner as the beneficiary and
\* nothing else, and so gives the earlier owner nothing.  (A release does not
\* write the owner, so the owner of the state it leaves is the owner it was
\* called under.)
C25_BeneficiaryIsOwner ==
    /\ (Returned("release_eth") /\ IsOk(lastOp.res)) => lastOp.paid.made
    /\ (/\ lastOp.name \in {"release_eth", "VestingWalletExample_release_eth"}
        /\ lastOp.paid.made) =>
           /\ IsOk(lastOp.res)
           /\ lastOp.paid.to = owner(vesting_wallet)
           /\ logs = <<EtherReleased(owner(vesting_wallet),
                                     lastOp.paid.amount)>>

\* C25 witness: the ownership went from alice to bob and a release_eth then
\* paid bob an amount above 0.
C25_Witness ==
    /\ Returned("release_eth")
    /\ IsOk(lastOp.res)
    /\ owner(vesting_wallet) = bob
    /\ lastOp.paid.made
    /\ lastOp.paid.to = bob
    /\ lastOp.paid.amount > 0
    /\ logs = <<EtherReleased(bob, lastOp.paid.amount)>>

C27_RemoteFailure ==
    lastOp.name \in {"release_erc20", "VestingWalletExample_release_erc20"} =>
        /\ (/\ lastOp.remote # "erc20"
            /\ lastOp.name = "VestingWalletExample_release_erc20" =>
                   lastOp.sender = owner(vesting_wallet)) =>
               /\ lastOp.res = RemoteContractCallFailed
               /\ logs = <<>>
               /\ lastOp.paid = NoPayment
        /\ (lastOp.name = "release_erc20" /\ owner(vesting_wallet) = ZERO) =>
               /\ lastOp.res = RemoteContractCallFailed
               /\ logs = <<>>
               /\ lastOp.paid = NoPayment
        /\ ~IsOk(lastOp.res) =>
               /\ lastOp.res = RemoteContractCallFailed
               /\ logs = <<>>
               /\ lastOp.paid = NoPayment

\* C27 witness: the token answered false to the transfer of a release_erc20
\* that had an amount above 0 to release, and the release failed.
C27_Witness ==
    /\ Returned("release_erc20")
    /\ lastOp.remote = "transfer_false"
    /\ lastOp.res = RemoteContractCallFailed
    /\ IsOk(releasable_erc20(vesting_wallet, chain, lastOp.x, "erc20"))
    /\ releasable_erc20(vesting_wallet, chain, lastOp.x, "erc20").ret > 0
    /\ owner(vesting_wallet) # ZERO

\* C28: no operation changes start or duration, and end() returns start() +
\* duration().
C28_ScheduleIsFixed ==
    [][/\ start(vesting_wallet') = start(vesting_wallet)
       /\ duration(vesting_wallet') = duration(vesting_wallet)
       /\ Returning("end") =>
              lastOp'.res = OkValue(vesting_wallet.start
                                    + vesting_wallet.duration)]_vars

\* C28 witness: end() has returned an end after the start, on a wallet that
\* has changed hands and paid ether.
C28_Witness ==
    /\ Returned("end")
    /\ lastOp.res = OkValue(vesting_wallet.start + vesting_wallet.duration)
    /\ vesting_wallet.duration > 0
    /\ owner(vesting_wallet) = bob
    /\ history.eth_paid > 0

\* The linear schedule with the product taken in the integers: what
\* vesting_schedule returns whenever total_alloc * (timestamp - start) fits a
\* U256, as it does for every amount of ether.
LinearVested(W, total_alloc, timestamp) ==
    IF timestamp < W.start THEN 0
    ELSE IF timestamp >= W.start + W.duration THEN total_alloc
    ELSE (total_alloc * (timestamp - W.start)) \div W.duration

\* C36: ether is never released ahead of schedule: in every reachable state
\* the ether paid out by release_eth so far is at most the schedule's share,
\* at the current block time, of all the ether the wallet ever received (so a
\* second release_eth at the same timestamp with no deposit in between pays
\* 0).
C36_EthNeverAhead ==
    history.eth_paid <=
        LinearVested(vesting_wallet, history.eth_received, chain.timestamp)

\* C37: tokens are never released ahead of schedule: for every token, in
\* every reachable state, released_erc20(token) is at most
\* vesting_schedule(balance of the wallet + released_erc20(token), now).
C37_Erc20NeverAhead ==
    \A token \in Token :
        LET vested == vested_erc20_amount(vesting_wallet, chain, token,
                                          chain.timestamp, "erc20")
        IN  /\ IsOk(vested)
            /\ released_erc20(vesting_wallet, token) <= vested.ret

\* C38: the subtractions of releasable_eth (vested_eth_amount(now) -
\* released_eth()) and of releasable_erc20 (vested_erc20_amount(token, now) -
\* released_erc20(token)) never underflow in a reachable state: every call
\* of the two getters that returns a value returns the difference taken in
\* the integers.
C38_ReleasableNeverUnderflows ==
    /\ Returned("releasable_eth") =>
           LET vested == vested_eth_amount(vesting_wallet, chain,
                                           chain.timestamp)
           IN  /\ IsOk(vested)
               /\ lastOp.res =
                      OkValue(vested.ret - released_eth(vesting_wallet))
    /\ (Returned("releasable_erc20") /\ IsOk(lastOp.res)) =>
           LET vested == vested_erc20_amount(vesting_wallet, chain, lastOp.x,
                                             chain.timestamp, "erc20")
           IN  /\ IsOk(vested)
               /\ lastOp.res =
                      OkValue(vested.ret
                              - released_erc20(vesting_wallet, lastOp.x))

\* C39: for a fixed start, duration and total_alloc, vesting_schedule is
\* non-decreasing in the timestamp and never exceeds total_alloc; for a fixed
\* timestamp it is non-decreasing in total_alloc.
C39_ScheduleIsMonotone ==
    Returned("vesting_schedule") =>
        LET t == lastOp.timestamp
            a == lastOp.total_alloc
        IN  /\ IsOk(lastOp.res)
            /\ lastOp.res.ret <= a
            /\ \A later \in U64 :
                   later >= t =>
                       vesting_schedule(vesting_wallet, a, later).ret
                           >= lastOp.res.ret
            /\ \A more \in U256 :
                   more >= a =>
                       vesting_schedule(vesting_wallet, more, t).ret
                           >= lastOp.res.ret

====
